---- MODULE Spec2Model ----
(***************************************************************************)
(* Model of the ensembling / transform-aware Predictor                     *)
(* (allennlpx/predictors/predictor.py) and of the run-level attack loop    *)
(* (awesome_glue/task.py, Task.attack).                                    *)
(*                                                                         *)
(* Probabilities are exact rationals on a grid: a model output is a vector *)
(* of NumLabels numerators over Grid.  A computed float is a pair          *)
(* <<num, den>>; den = 0 is the IEEE result of 0/0 (NaN).                  *)
(***************************************************************************)
EXTENDS Integers, Sequences, FiniteSets, TLC

\* ---------------------------------------------------------------- bounds
GridUnits == 1         \* probabilities are k/Grid, Grid = NumLabels * GridUnits
MaxReplicas == 2       \* rows handed to _weighted_average in SpecWA
MaxP == 3              \* largest ensemble_p explored in SpecWA
MaxBatchForward == 4   \* largest value given to set_max_batch_forward
MaxEnsemble == 2       \* largest value given to set_ensemble_num
MaxRecords == 3        \* longest list given to predict_batch_json
MaxData == 3           \* longest data_to_attack
MaxEpochs == 2          \* largest num_epochs read by Task.train
MaxInstances == 3       \* largest data split given to Task.downsample
MaxDownsample == 2      \* largest config.data_downsample
MaxShard == 2           \* largest config.data_shard
MaxNames == 2           \* longest names list given to capture_named_internals
MaxUses == 2            \* uses of capture_named_internals in one run
MaxMetricCalls == 20   \* succeed/fail/escape calls explored in SpecMetric
MaxQueries == 1        \* predictor calls one attack_from_json may issue

\* ------------------------------------------------------ program constants
NumLabels == 3                 \* TASK_SPECS[task_id]['num_labels']
DefaultMaxBatchForward == 512  \* Predictor.__init__
DefaultEnsembleNum == 1        \* Predictor.__init__
DefaultEnsembleP == 3          \* Predictor.__init__
Grid == NumLabels * GridUnits
TokenLimit == 300              \* Task.downsample, length filter

VARIABLES
    \* Predictor fields
    _grad_enabled, _max_batch_forward, _ensemble_num, _transform_fn,
    _transform_field, _ensemble_p,
    \* torch's global gradient mode
    grad_mode,
    \* the last operation on the predictor and what it did
    op, json_dicts, ret, forwards, tf_calls,
    last_transform_arg, prev_transform_fn,
    \* the caller's records as the last operation left them
    json_after,
    \* _weighted_average as a pure function
    probs_to_ensemble, wa_delta, wa_ret,
    \* Task.attack
    pc, i, data_to_attack, metric, predict_calls, attack_calls, visits,
    agg, f_adv, attack_gen_adv, attack_method, attacker, summary,
    \* the classifier: weights and mode, and the states it was called in
    eval_pc, model, model_at_calls,
    \* Task.train
    train_pc, train_config, adv_policy, policy_args, trainer,
    \* Predictor.capture_named_internals
    cap_pc, names, match_type, hooks, model_hooks, hook_count, removed, uses,
    \* Task.downsample
    down_pc, down_config, dataset, data_down

predictorVars == <<_grad_enabled, _max_batch_forward, _ensemble_num,
                   _transform_fn, _transform_field, _ensemble_p, grad_mode,
                   op, json_dicts, ret, forwards, tf_calls,
                   last_transform_arg, prev_transform_fn, json_after>>
waVars == <<probs_to_ensemble, wa_delta, wa_ret>>
attackVars == <<pc, i, data_to_attack, metric, predict_calls, attack_calls,
                visits, agg, f_adv, attack_gen_adv, attack_method, attacker, summary,
                eval_pc, model, model_at_calls>>
trainVars == <<train_pc, train_config, adv_policy, policy_args, trainer>>
captureVars == <<cap_pc, names, match_type, hooks, model_hooks, hook_count,
                 removed, uses>>
downVars == <<down_pc, down_config, dataset, data_down>>
auxVars == <<trainVars, captureVars, downVars>>
vars == <<predictorVars, waVars, attackVars, auxVars>>

\* ---------------------------------------------------------------- helpers
Labels == 0 .. (NumLabels - 1)

\* A sequence given as a function, with every element computed once.
Seq1(f) == f \o <<>>

RECURSIVE SumSeq(_)
SumSeq(s) == IF s = <<>> THEN 0 ELSE Head(s) + SumSeq(Tail(s))

RECURSIVE SeqsUpTo(_, _)
SeqsUpTo(S, n) ==
    IF n = 0 THEN {<<>>}
    ELSE LET shorter == SeqsUpTo(S, n - 1)
         IN  shorter \cup {Append(s, x) : s \in {t \in shorter : Len(t) = n - 1}, x \in S}

\* Probability vectors: NumLabels numerators over Grid that sum to Grid.
ProbVectors == {v \in [1 .. NumLabels -> 0 .. Grid] :
                   SumSeq([c \in 1 .. NumLabels |-> v[c]]) = Grid}

MaxOf(v) == CHOOSE m \in {v[c] : c \in DOMAIN v} : \A c \in DOMAIN v : v[c] <= m

\* np.argmax: the first index of the maximum, as a 0-based label.
ArgMax(v) == (CHOOSE c \in DOMAIN v :
                 /\ v[c] = MaxOf(v)
                 /\ \A b \in DOMAIN v : v[b] = MaxOf(v) => c <= b) - 1

NaN == <<0, 0>>
IsNaN(x) == x[2] = 0
\* float division a / b of non-negative a, b: 0/0 is NaN and raises nothing.
FDiv(a, b) == IF b = 0 THEN NaN ELSE <<a, b>>
RatEq(x, y) == ~IsNaN(x) /\ ~IsNaN(y) /\ x[1] * y[2] = y[1] * x[2]
RatLess(x, y) == ~IsNaN(x) /\ ~IsNaN(y) /\ x[1] * y[2] < y[1] * x[2]

\* ------------------------------------------------------ _weighted_average
\* torch.pow with an integer exponent: x ** 0 = 1 for every x, 0 included.
RECURSIVE TorchPow(_, _)
TorchPowNoZeroCase(x, p) == IF x = 0 THEN 0 ELSE IF p = 0 THEN 1 ELSE x * TorchPow(x, p - 1)
TorchPow(x, p) == IF p = 0 THEN 1 ELSE x * TorchPow(x, p - 1)

\* lines 166-168: delta[r] = sum_c (max(probs[r]) - probs[r][c]) ** p
\* (DeltaWrongDim takes the maximum over dim=0, the replicas, instead.)
DeltaWrongDim(probs, p) ==
    [r \in 1 .. Len(probs) |->
        SumSeq([c \in 1 .. NumLabels |->
            TorchPow(MaxOf([q \in 1 .. Len(probs) |-> probs[q][c]]) - probs[r][c], p)])]
Delta(probs, p) ==
    [r \in 1 .. Len(probs) |->
        SumSeq([c \in 1 .. NumLabels |-> TorchPow(MaxOf(probs[r]) - probs[r][c], p)])]

\* line 169: delta / delta.sum()
Weights(probs, p) ==
    LET delta == Seq1(Delta(probs, p))
        total == SumSeq(delta)
    IN  Seq1([r \in 1 .. Len(probs) |-> FDiv(delta[r], total)])

\* line 170: delta @ probs_to_ensemble (a NaN weight makes every entry NaN)
_weighted_average(probs, p) ==
    LET w == Weights(probs, p)
    IN  Seq1([c \in 1 .. NumLabels |->
            IF \E r \in 1 .. Len(probs) : IsNaN(w[r]) THEN NaN
            ELSE <<SumSeq([r \in 1 .. Len(probs) |-> w[r][1] * probs[r][c]]),
                   w[1][2] * Grid>>])

\* ------------------------------------ idle values of the other components
InitAttackState ==
    /\ pc = "start"
    /\ i = 0
    /\ data_to_attack = <<>>
    /\ metric = [succeed |-> 0, fail |-> 0, escape |-> 0]
    /\ predict_calls = <<>>
    /\ attack_calls = <<>>
    /\ visits = <<>>
    /\ agg = <<>>
    /\ f_adv = <<>>
    /\ attacker = "None"
    /\ eval_pc = "enter"
    /\ model = [weights |-> "initial", training |-> TRUE]
    /\ model_at_calls = {}
    /\ summary = [printed |-> FALSE, dash |-> FALSE, avg_change_num |-> <<0, 1>>]

InitAttackIdle ==
    InitAttackState /\ attack_gen_adv = FALSE /\ attack_method = "PWWS"

InitWAIdle ==
    /\ probs_to_ensemble = <<>>
    /\ wa_delta = <<>>
    /\ wa_ret = <<>>

NoPolicyArgs == [adv_field |-> "None", forward_order |-> 0]

NoTrainer == [adv_policy |-> "None", num_epochs |-> 0, trained |-> FALSE]

InitTrainState ==
    /\ train_pc = "start"
    /\ adv_policy = "None"
    /\ policy_args = NoPolicyArgs
    /\ trainer = NoTrainer

InitTrainIdle ==
    /\ InitTrainState
    /\ train_config = [adv_policy |-> "", arch |-> "bert", sentence_pair |-> FALSE,
                       num_epochs |-> 1]

InitCaptureState ==
    /\ cap_pc = "out"
    /\ names = <<>>
    /\ match_type = "full"
    /\ hooks = <<>>
    /\ model_hooks = <<>>
    /\ hook_count = 0
    /\ removed = <<>>
    /\ uses = 0

InitDownState ==
    /\ down_pc = "start"
    /\ data_down = <<>>

InitDownIdle ==
    /\ InitDownState
    /\ dataset = <<>>
    /\ down_config = [data_random |-> FALSE, data_downsample |-> -1, data_shard |-> 0]

InitAuxIdle == InitTrainIdle /\ InitCaptureState /\ InitDownIdle

\* -------------------------------------------------------------- Predictor
\* JSON records (and the instances the reader builds from them, one to one).
\* A text is a number; a transformed text is its raw text plus a multiple of 10.
\* The lists handed to the predictor: n records, all different or all equal.
JsonInputs == {[k \in 1 .. n |-> [sent |-> (k * step) % 4, sent2 |-> 1]] :
                  n \in 0 .. MaxRecords, step \in {0, 1}}
Fields == {"sent", "sent2"}

\* The functions handed to set_transform_fn: None, lambda x: x (returns its
\* argument), lambda x: list(x) (an equal but new list), and an augmenter whose
\* output depends on the element and on its place in the list.
TransformArgs == {"None", "identity", "copy", "aug"}
ApplyTransform(fn, tf_in) ==
    IF fn = "aug"
    THEN [k \in 1 .. Len(tf_in) |-> tf_in[k] + 10 * (1 + (k % 2))]
    ELSE tf_in
ReturnsSameObject(fn) == fn = "identity"

\* check_identity(fn)
check_identity(fn) == IF fn = "None" THEN TRUE ELSE ReturnsSameObject(fn)

\* set_transform_fn: the new value of _transform_fn
AlwaysAssign(fn, cur) == fn
NewTransformFn(fn, cur) == IF ~check_identity(fn) THEN fn ELSE cur

\* truth value of `self._transform_fn` (line 106)
TransformIsSet(fn) == fn # "None"

\* self._model.forward_on_instances on one instance: a fixed deterministic
\* classifier, reading both fields. Its outputs include one-hot vectors
\* (k = 0, k = Grid) and the uniform vector (k = 1).
ModelProbs(inst) ==
    LET k == (inst.sent + 2 * inst.sent2) % (Grid + 1)
    IN  IF k = 1 THEN [c \in 1 .. NumLabels |-> GridUnits]
        ELSE [c \in 1 .. NumLabels |->
                 IF c = 1 THEN k ELSE IF c = 2 THEN Grid - k ELSE 0]

\* allennlp's lazy_groups_of over the positions 1 .. n: consecutive groups of
\* group_size positions, the last one shorter; no group when group_size is 0.
RECURSIVE GroupsFrom(_, _, _)
GroupsFrom(first, n, group_size) ==
    IF first > n \/ group_size <= 0 THEN <<>>
    ELSE LET last == IF first + group_size - 1 < n THEN first + group_size - 1 ELSE n
         IN  <<Seq1([k \in 1 .. (last - first + 1) |-> first + k - 1])>>
                 \o GroupsFrom(last + 1, n, group_size)
lazy_groups_of(n, group_size) == GroupsFrom(1, n, group_size)

\* line 99: int(self._max_batch_forward / self._ensemble_num)
GroupSizeUndivided(max_batch_forward, ensemble_num) == max_batch_forward
GroupSize(max_batch_forward, ensemble_num) == max_batch_forward \div ensemble_num

\* lines 102-105: every record of the group copied ensemble_num times in a row;
\* src remembers the position in json_dicts the copy was made from.
ReplicaSrc(group, ensemble_num) ==
    [k \in 1 .. (Len(group) * ensemble_num) |-> group[((k - 1) \div ensemble_num) + 1]]

\* lines 106-110: the transform is computed for the whole replicated batch
\* and written back for i in range(bsz).
TransformedBatch(b_en_jsons, bsz, fn, field) ==
    IF TransformIsSet(fn)
    THEN LET tf_in == Seq1([k \in 1 .. Len(b_en_jsons) |-> b_en_jsons[k][field]])
             tf_out == Seq1(ApplyTransform(fn, tf_in))
         IN  Seq1([k \in 1 .. Len(b_en_jsons) |->
                 IF k <= bsz THEN [b_en_jsons[k] EXCEPT ![field] = tf_out[k]]
                 ELSE b_en_jsons[k]])
    ELSE b_en_jsons

\* torch.set_grad_enabled(flag) as a context manager: the mode inside the
\* block, and the mode restored when the block is left.
GradAmbient(flag, ambient) == ambient
GradInside(flag, ambient) == flag
GradNotRestored(inside, ambient) == inside
GradAfter(inside, ambient) == ambient

\* One pass of the loop body, lines 100-118, for one group: the forward call
\* it issues and the outputs it appends to ret.
GroupForward(dicts, group, ensemble_num, fn, field, grad) ==
    LET src == Seq1(ReplicaSrc(group, ensemble_num))
        b_en_jsons == Seq1([k \in 1 .. Len(src) |-> dicts[src[k]]])
    IN  [insts |-> TransformedBatch(b_en_jsons, Len(group), fn, field),
         src |-> src,
         grad |-> grad]

GroupOutputs(fwd, bsz, ensemble_num, p) ==
    LET outputs == Seq1([k \in 1 .. Len(fwd.insts) |-> Seq1(ModelProbs(fwd.insts[k]))])
    IN  Seq1([b \in 1 .. bsz |->
            LET offset == (b - 1) * ensemble_num
            IN  [probs |-> _weighted_average(
                              Seq1([e \in 1 .. ensemble_num |-> outputs[offset + e]]), p),
                 from |-> Seq1([e \in 1 .. ensemble_num |-> fwd.src[offset + e]])]])

RECURSIVE Flatten(_)
Flatten(ss) == IF ss = <<>> THEN <<>> ELSE Head(ss) \o Flatten(Tail(ss))

\* predict_batch_json, lines 96-119, as a function of the predictor's fields.
BatchJsonForwards(dicts, max_batch_forward, ensemble_num, fn, field, grad) ==
    LET groups == lazy_groups_of(Len(dicts), GroupSize(max_batch_forward, ensemble_num))
    IN  Seq1([g \in 1 .. Len(groups) |->
            GroupForward(dicts, groups[g], ensemble_num, fn, field, grad)])

\* ret, from the forward calls issued: bsz = len(group) outputs per group.
BatchJsonRet(fwds, ensemble_num, p) ==
    Flatten(Seq1([g \in 1 .. Len(fwds) |->
                    GroupOutputs(fwds[g], Len(fwds[g].src) \div ensemble_num,
                                 ensemble_num, p)]))

\* line 105, json_dict.copy(): a replica is a new dict, so the write of line
\* 110 lands in the replica and not in the caller's record.
ReplicaIsAlias(json_dict) == FALSE
ReplicaIsCopy(json_dict) == TRUE

\* The caller's records after the call: record j as the last write of line 110
\* to one of its replicas left it, were the replica the record itself.
CallerRecordsAfter(dicts, fwds, ensemble_num) ==
    Seq1([j \in 1 .. Len(dicts) |->
        LET writes == {gk \in {<<g, k>> : g \in 1 .. Len(fwds), k \in 1 .. MaxRecords} :
                          /\ gk[2] <= Len(fwds[gk[1]].src) \div ensemble_num
                          /\ fwds[gk[1]].src[gk[2]] = j}
        IN  IF ReplicaIsCopy(dicts[j]) \/ writes = {} THEN dicts[j]
            ELSE LET gk == CHOOSE w \in writes : \A v \in writes : v[2] <= w[2]
                 IN  fwds[gk[1]].insts[gk[2]]])

InitPredictor ==
    /\ _grad_enabled = FALSE
    /\ _max_batch_forward = DefaultMaxBatchForward
    /\ _ensemble_num = DefaultEnsembleNum
    /\ _transform_fn = "None"
    /\ _transform_field = "sent"
    /\ _ensemble_p = DefaultEnsembleP
    /\ grad_mode \in BOOLEAN
    /\ op = "__init__"
    /\ json_dicts = <<>>
    /\ ret = <<>>
    /\ forwards = <<>>
    /\ tf_calls = 0
    /\ last_transform_arg = "unset"
    /\ prev_transform_fn = "None"
    /\ json_after = <<>>

NoCallResult ==
    /\ op' = "config"
    /\ json_dicts' = <<>>
    /\ ret' = <<>>
    /\ forwards' = <<>>
    /\ tf_calls' = 0
    /\ json_after' = <<>>

set_ensemble_num ==
    \E ensemble_num \in 1 .. MaxEnsemble :
        /\ _ensemble_num' = ensemble_num
        /\ NoCallResult
        /\ UNCHANGED <<_grad_enabled, _max_batch_forward, _transform_fn, _transform_field,
                       _ensemble_p, grad_mode, last_transform_arg, prev_transform_fn,
                       waVars, attackVars, auxVars>>

set_transform_fn ==
    \E transform_fn \in TransformArgs :
        /\ _transform_fn' = NewTransformFn(transform_fn, _transform_fn)
        /\ last_transform_arg' = transform_fn
        /\ prev_transform_fn' = _transform_fn
        /\ NoCallResult
        /\ UNCHANGED <<_grad_enabled, _max_batch_forward, _ensemble_num, _transform_field,
                       _ensemble_p, grad_mode, waVars, attackVars, auxVars>>

set_transform_field ==
    \E transform_field \in Fields :
        /\ _transform_field' = transform_field
        /\ NoCallResult
        /\ UNCHANGED <<_grad_enabled, _max_batch_forward, _ensemble_num, _transform_fn,
                       _ensemble_p, grad_mode, last_transform_arg, prev_transform_fn,
                       waVars, attackVars, auxVars>>

set_max_batch_forward ==
    \E max_batch_forward \in 1 .. MaxBatchForward :
        /\ _max_batch_forward' = max_batch_forward
        /\ NoCallResult
        /\ UNCHANGED <<_grad_enabled, _ensemble_num, _transform_fn, _transform_field,
                       _ensemble_p, grad_mode, last_transform_arg, prev_transform_fn,
                       waVars, attackVars, auxVars>>

set_grad_enabled ==
    \E grad_enabled \in BOOLEAN :
        /\ _grad_enabled' = grad_enabled
        /\ NoCallResult
        /\ UNCHANGED <<_max_batch_forward, _ensemble_num, _transform_fn, _transform_field,
                       _ensemble_p, grad_mode, last_transform_arg, prev_transform_fn,
                       waVars, attackVars, auxVars>>

\* The caller enters or leaves a torch.no_grad() / enable_grad() block of its own
\* (Task.evaluate_predictor and attack_pro's wrapper run under no_grad).
CallerSetsGradMode ==
    \E mode \in BOOLEAN :
        /\ grad_mode' = mode
        /\ NoCallResult
        /\ UNCHANGED <<_grad_enabled, _max_batch_forward, _ensemble_num, _transform_fn,
                       _transform_field, _ensemble_p, last_transform_arg,
                       prev_transform_fn, waVars, attackVars, auxVars>>

predict_batch_json ==
    \E dicts \in JsonInputs :
        LET inside == GradInside(_grad_enabled, grad_mode)
            fwds == BatchJsonForwards(dicts, _max_batch_forward, _ensemble_num,
                                      _transform_fn, _transform_field, inside)
        IN  /\ op' = "predict_batch_json"
            /\ json_dicts' = dicts
            /\ forwards' = fwds
            /\ json_after' = CallerRecordsAfter(dicts, forwards', _ensemble_num)
            /\ tf_calls' = IF TransformIsSet(_transform_fn) THEN Len(forwards') ELSE 0
            /\ ret' = BatchJsonRet(forwards', _ensemble_num, _ensemble_p)
            /\ grad_mode' = GradAfter(inside, grad_mode)
            /\ UNCHANGED <<_grad_enabled, _max_batch_forward, _ensemble_num, _transform_fn,
                           _transform_field, _ensemble_p, last_transform_arg,
                           prev_transform_fn, waVars, attackVars, auxVars>>

\* predict_batch_instance, lines 124-131: one forward call on all instances
\* when nothing is ensembled or transformed, predict_batch_json otherwise.
predict_batch_instance ==
    \E instances \in JsonInputs :
        LET inside == GradInside(_grad_enabled, grad_mode)
            direct == _ensemble_num = 1 /\ _transform_fn = "None"
            fwds == IF direct
                    THEN <<[insts |-> instances,
                            src |-> [k \in 1 .. Len(instances) |-> k],
                            grad |-> inside]>>
                    ELSE BatchJsonForwards(instances, _max_batch_forward, _ensemble_num,
                                           _transform_fn, _transform_field, inside)
        IN  /\ op' = "predict_batch_instance"
            /\ json_dicts' = instances
            /\ forwards' = fwds
            /\ json_after' = instances
            /\ tf_calls' = IF direct \/ ~TransformIsSet(_transform_fn) THEN 0
                            ELSE Len(forwards')
            /\ ret' = IF direct
                      THEN [k \in 1 .. Len(instances) |->
                               [probs |-> [c \in 1 .. NumLabels |->
                                              <<ModelProbs(instances[k])[c], Grid>>],
                                from |-> <<k>>]]
                      ELSE BatchJsonRet(forwards', _ensemble_num, _ensemble_p)
            /\ grad_mode' = GradAfter(inside, grad_mode)
            /\ UNCHANGED <<_grad_enabled, _max_batch_forward, _ensemble_num, _transform_fn,
                           _transform_field, _ensemble_p, last_transform_arg,
                           prev_transform_fn, waVars, attackVars, auxVars>>

Init == InitPredictor /\ InitWAIdle /\ InitAttackIdle /\ InitAuxIdle

Next ==
    \/ set_ensemble_num
    \/ set_transform_fn
    \/ set_transform_field
    \/ set_max_batch_forward
    \/ set_grad_enabled
    \/ CallerSetsGradMode
    \/ predict_batch_json
    \/ predict_batch_instance

Spec == Init /\ [][Next]_vars

\* ------------------------------------------------ properties of the Predictor
PredictOps == {"predict_batch_json", "predict_batch_instance"}

\* The values the transform returns for the batch of forward call g.
TfOut(g) ==
    ApplyTransform(_transform_fn,
                   [k \in 1 .. Len(forwards[g].src) |->
                       json_dicts[forwards[g].src[k]][_transform_field]])

\* C3: with a transform configured, every one of the bsz * ensemble_num
\* replicated records handed to the model carries the transform output of its
\* own index in the transform field.
C3_TransformOnEveryReplica ==
    (op = "predict_batch_json" /\ TransformIsSet(_transform_fn)) =>
        \A g \in 1 .. Len(forwards) :
            \A k \in 1 .. Len(forwards[g].insts) :
                forwards[g].insts[k][_transform_field] = TfOut(g)[k]

\* C4: an identity function passed to set_transform_fn while no transform is
\* set leaves _transform_fn unset; predict_batch_json then never invokes a
\* transform and returns what a predictor without transform returns.  No
\* identity function is ever stored in _transform_fn.
C4_IdentityIsNoTransform ==
    /\ _transform_fn # "identity"
    /\ (last_transform_arg = "identity" /\ prev_transform_fn = "None") =>
          /\ _transform_fn = "None"
          /\ op = "predict_batch_json" =>
                /\ tf_calls = 0
                /\ ret = BatchJsonRet(
                             BatchJsonForwards(json_dicts, _max_batch_forward,
                                               _ensemble_num, "None", _transform_field,
                                               FALSE),
                             _ensemble_num, _ensemble_p)

C4_Witness ==
    /\ last_transform_arg = "identity" /\ prev_transform_fn = "None"
    /\ op = "predict_batch_json"
    /\ Len(json_dicts) >= 2 /\ _ensemble_num >= 2 /\ Len(ret) = Len(json_dicts)

\* The records of json_dicts that forward call g was built from.
GroupRecords(g) == {forwards[g].src[k] : k \in 1 .. Len(forwards[g].src)}
FirstOf(S) == CHOOSE x \in S : \A y \in S : x <= y
LastOf(S) == CHOOSE x \in S : \A y \in S : y <= x

\* C5: predict_batch_json cuts its input into consecutive groups of at most
\* floor(max_batch_forward / ensemble_num) records, and every forward call
\* receives at most max_batch_forward instances.
C5_ForwardBounded ==
    op = "predict_batch_json" =>
        \A g \in 1 .. Len(forwards) :
            /\ Len(forwards[g].insts) <= _max_batch_forward
            /\ Cardinality(GroupRecords(g)) <= _max_batch_forward \div _ensemble_num
            /\ Len(forwards[g].insts) = Cardinality(GroupRecords(g)) * _ensemble_num
            /\ GroupRecords(g) = FirstOf(GroupRecords(g)) .. LastOf(GroupRecords(g))
            /\ FirstOf(GroupRecords(g)) =
                  IF g = 1 THEN 1 ELSE LastOf(GroupRecords(g - 1)) + 1

\* several groups, several replicas per record, one call filled to the limit
C5_Witness ==
    /\ op = "predict_batch_json"
    /\ Len(forwards) >= 2 /\ _ensemble_num >= 2
    /\ \E g \in 1 .. Len(forwards) : Len(forwards[g].insts) = _max_batch_forward
    /\ \E g \in 1 .. Len(forwards) : Cardinality(GroupRecords(g)) >= 2

\* C6: for ensemble_num >= 1 and max_batch_forward >= 1, predict_batch_json
\* returns one output per input record, in input order, output i combining
\* exactly the ensemble_num model outputs of the replicas of record i.
C6_OneOutputPerRecord ==
    op = "predict_batch_json" =>
        /\ Len(ret) = Len(json_dicts)
        /\ \A r \in 1 .. Len(ret) :
              ret[r].from = [e \in 1 .. _ensemble_num |-> r]

\* C10: every forward pass of predict_batch_json and predict_batch_instance
\* runs with gradient tracking equal to _grad_enabled, whatever the ambient
\* mode is, and the ambient mode is the same after the call as before; the
\* flag starts False and no predict call changes it.
C10_GradFollowsFlag ==
    /\ ~_grad_enabled
    /\ [][op' \in PredictOps =>
             /\ grad_mode' = grad_mode
             /\ _grad_enabled' = _grad_enabled
             /\ \A g \in 1 .. Len(forwards') : forwards'[g].grad = _grad_enabled]_vars

C10_Witness ==
    /\ op = "predict_batch_instance"
    /\ forwards # <<>>
    /\ _grad_enabled /\ ~grad_mode
    /\ \A g \in 1 .. Len(forwards) : forwards[g].grad

\* C14: predict_batch_json changes none of the predictor's configuration and
\* leaves the caller's records as they were (the transform output goes to the
\* replicas only), so a repeated call on the same records returns the same
\* outputs.
C14_NoStateAcrossCalls ==
    [][op' = "predict_batch_json" =>
          /\ <<_ensemble_num, _ensemble_p, _transform_fn, _transform_field,
               _max_batch_forward, _grad_enabled>>' =
             <<_ensemble_num, _ensemble_p, _transform_fn, _transform_field,
               _max_batch_forward, _grad_enabled>>
          /\ json_after' = json_dicts'
          /\ (op = "predict_batch_json" /\ json_dicts' = json_dicts) => ret' = ret]_vars

\* a call whose transform changed the text of the first replica
C14_Witness ==
    /\ op = "predict_batch_json"
    /\ tf_calls > 0
    /\ json_dicts # <<>>
    /\ forwards[1].insts[1] # json_dicts[1]
    /\ json_after = json_dicts

\* C17: when the most recent set_transform_fn was given None or an identity
\* function, predict_batch_json applies no transform.
C17_LastSetterWins ==
    (op = "predict_batch_json" /\ last_transform_arg \in {"None", "identity"}) =>
        /\ tf_calls = 0
        /\ \A g \in 1 .. Len(forwards) :
              \A k \in 1 .. Len(forwards[g].src) :
                  forwards[g].insts[k] = json_dicts[forwards[g].src[k]]

\* The instance the model saw for record b when nothing is ensembled.
ModelInput(b) ==
    LET gk == CHOOSE w \in {<<g, k>> : g \in 1 .. Len(forwards), k \in 1 .. MaxRecords} :
                  w[2] <= Len(forwards[w[1]].src) /\ forwards[w[1]].src[w[2]] = b
    IN  forwards[gk[1]].insts[gk[2]]

\* C18: with ensemble_num = 1 the probs returned for a record are the vector
\* the model produced for it, whatever that vector is.
C18_SingleReplicaPassesThrough ==
    (op = "predict_batch_json" /\ _ensemble_num = 1 /\ _ensemble_p >= 0) =>
        /\ Len(ret) = Len(json_dicts)
        /\ \A b \in 1 .. Len(ret) : \A c \in 1 .. NumLabels :
              RatEq(ret[b].probs[c], <<ModelProbs(ModelInput(b))[c], Grid>>)

\* ------------------------------------------------------------ Task.attack
\* An instance of data_to_attack: its gold label and the probabilities the
\* predictor returns for its unperturbed text (all mass on label 0 or on
\* label 1, or the uniform vector, whose arg-max is label 0).
InstanceProbs == {v \in ProbVectors :
                    \/ v[1] = Grid
                    \/ v[2] = Grid
                    \/ \A c \in 1 .. NumLabels : v[c] = GridUnits}
Instances == [label : {0, 1}, probs : InstanceProbs]
AttackData == SeqsUpTo(Instances, MaxData)

\* What attacker.attack_from_json may return and do: the search succeeds or
\* not, leaves the text changed or not, and queries the predictor either not
\* at all or MaxQueries times.
AttackResults ==
    {r \in [success : BOOLEAN, change_num : {0, 1}, queries : {0, MaxQueries}] :
        r.success => r.change_num >= 1}

\* AttackMetric: the counter a call of succeed(), fail() or escape() raises.
MetricAfter(m, call) == [m EXCEPT ![call] = @ + 1]

\* line 482: only a correctly predicted instance is attacked
AttackAlways(raw_pred, raw_label) == TRUE
ShouldAttack(raw_pred, raw_label) == raw_pred = raw_label

\* lines 482-527: the metric method one iteration calls
MetricCallDropsFail(attacked, success) ==
    IF attacked /\ success THEN "succeed" ELSE "escape"
MetricCall(attacked, success) ==
    IF attacked THEN (IF success THEN "succeed" ELSE "fail") ELSE "escape"

\* lines 433-454: the attacker class chosen for config.attack_method, "raise"
\* standing for the `raise Exception()` of the last branch.
AttackerOrDefault(method) ==
    IF method = "hotflip" THEN "HotFlip"
    ELSE IF method = "bruteforce" THEN "BruteForce"
    ELSE IF method \in {"GA-LM", "GA"} THEN "Genetic"
    ELSE "PWWS"
AttackerFor(method) ==
    IF method = "hotflip" THEN "HotFlip"
    ELSE IF method = "bruteforce" THEN "BruteForce"
    ELSE IF method = "PWWS" THEN "PWWS"
    ELSE IF method \in {"GA-LM", "GA"} THEN "Genetic"
    ELSE "raise"

\* The values of config.attack_method explored: two of the five known names
\* and one that Task.attack does not know (a name of attack_pro_method).
AttackMethods == {"PWWS", "GA-LM", "textfooler"}

\* line 496: the statistics are aggregated when the attack succeeded
AggregateWhenAttacked(attacked, success) == attacked
ShouldAggregate(attacked, success) == attacked /\ success

\* Aggregator.has_key / Aggregator.mean over the aggregated change_num values
AggHasKey(a) == a # <<>>
AggMean(a) == <<SumSeq([k \in 1 .. Len(a) |-> a[k].change_num]), Len(a)>>

\* lines 543-544: the averages of the final summary
SummaryOf(a) ==
    [printed |-> TRUE,
     dash |-> ~AggHasKey(a),
     avg_change_num |-> IF AggHasKey(a) THEN AggMean(a) ELSE <<0, 1>>]

InitAttack ==
    /\ InitPredictor
    /\ grad_mode = TRUE
    /\ InitWAIdle
    /\ InitAttackState
    /\ InitAuxIdle
    /\ attack_gen_adv \in BOOLEAN
    /\ attack_method \in AttackMethods

\* from_pretrained, lines 315-316: load_state_dict, then eval()
ModelLoadedStillTraining(mdl) == [weights |-> "checkpoint", training |-> mdl.training]
ModelAfterFromPretrained(mdl) == [weights |-> "checkpoint", training |-> FALSE]

\* lines 391-393, 325 and 298-316: Task.attack enters evaluate_predictor,
\* which starts with from_pretrained.
from_pretrained ==
    /\ pc = "start"
    /\ eval_pc = "enter"
    /\ eval_pc' = "loaded"
    /\ model' = ModelAfterFromPretrained(model)
    /\ UNCHANGED <<pc, i, data_to_attack, metric, predict_calls, attack_calls, visits,
                   agg, f_adv, attack_gen_adv, attack_method, attacker, summary,
                   model_at_calls, predictorVars, waVars, auxVars>>

\* from_pretrained with no checkpoint or metrics file for load_ckpt: line 305,
\* 311 or 315 raises before the model is touched, and Task.attack ends.
FromPretrainedRaises ==
    /\ pc = "start"
    /\ eval_pc = "enter"
    /\ eval_pc' = "raised"
    /\ UNCHANGED <<pc, i, data_to_attack, metric, predict_calls, attack_calls, visits,
                   agg, f_adv, attack_gen_adv, attack_method, attacker, summary,
                   model, model_at_calls, predictorVars, waVars, auxVars>>

\* lines 327-349: the accuracy of the predictor on the downsampled split, by
\* predict_batch_instance on batches of 32 (the split is not empty, or
\* downsample has raised at line 368).
evaluate_predictor ==
    /\ pc = "start"
    /\ eval_pc = "loaded"
    /\ eval_pc' = "evaluated"
    /\ model_at_calls' = model_at_calls \cup {[kind |-> "evaluate", model |-> model]}
    /\ UNCHANGED <<pc, i, data_to_attack, metric, predict_calls, attack_calls, visits,
                   agg, f_adv, attack_gen_adv, attack_method, attacker, summary,
                   model, predictorVars, waVars, auxVars>>

\* lines 391-465: the data is fixed, the log is opened and gets its header,
\* the metric and the aggregator start empty.
AttackSetup ==
    /\ pc = "start"
    /\ eval_pc = "evaluated"
    /\ AttackerFor(attack_method) # "raise"
    /\ attacker' = AttackerFor(attack_method)
    /\ \E data \in AttackData :
          /\ data_to_attack' = data
          /\ predict_calls' = [k \in 1 .. Len(data) |-> 0]
          /\ attack_calls' = [k \in 1 .. Len(data) |-> 0]
    /\ f_adv' = IF attack_gen_adv THEN <<"raw\tadv\tlabel">> ELSE <<>>
    /\ metric' = [succeed |-> 0, fail |-> 0, escape |-> 0]
    /\ agg' = <<>>
    /\ visits' = <<>>
    /\ i' = 0
    /\ pc' = "loop"
    /\ UNCHANGED <<predictorVars, waVars, auxVars, attack_gen_adv, attack_method, summary,
                   eval_pc, model, model_at_calls>>

\* lines 391-454 with an attack_method no branch knows: the exception of
\* line 454 leaves Task.attack before line 457.
AttackSetupRaises ==
    /\ pc = "start"
    /\ eval_pc = "evaluated"
    /\ AttackerFor(attack_method) = "raise"
    /\ pc' = "raised"
    /\ UNCHANGED <<i, data_to_attack, metric, predict_calls, attack_calls, visits,
                   agg, f_adv, attack_gen_adv, attack_method, attacker, summary,
                   eval_pc, model, model_at_calls, predictorVars, waVars, auxVars>>

\* lines 466-533: one iteration of the loop, for instance i (0-based).
AttackIteration(result) ==
    LET inst == data_to_attack[i + 1]
        raw_pred == ArgMax(inst.probs)
        raw_label == inst.label
        attacked == ShouldAttack(raw_pred, raw_label)
        success == attacked /\ result.success
        adv == IF attacked THEN [sent |-> i, changed |-> result.change_num]
               ELSE [sent |-> i, changed |-> 0]
    IN  /\ predict_calls' = [predict_calls EXCEPT
                               ![i + 1] = @ + 1 + (IF attacked THEN result.queries ELSE 0)]
        /\ attack_calls' = [attack_calls EXCEPT ![i + 1] = @ + (IF attacked THEN 1 ELSE 0)]
        /\ agg' = IF ShouldAggregate(attacked, result.success)
                  THEN Append(agg, [idx |-> i, change_num |-> result.change_num])
                  ELSE agg
        /\ metric' = MetricAfter(metric, MetricCall(attacked, result.success))
        /\ visits' = Append(visits, [idx |-> i, attacked |-> attacked,
                                     success |-> success,
                                     call |-> MetricCall(attacked, result.success)])
        /\ f_adv' = IF attack_gen_adv
                    THEN Append(f_adv, [raw |-> [sent |-> i, changed |-> 0],
                                        adv |-> adv, label |-> raw_label])
                    ELSE f_adv
        /\ model_at_calls' = model_at_calls
                                \cup {[kind |-> "predict", model |-> model]}
                                \cup (IF attacked
                                      THEN {[kind |-> "attack", model |-> model]}
                                      ELSE {})

AttackInstance ==
    /\ pc = "loop"
    /\ i < Len(data_to_attack)
    /\ \E result \in AttackResults :
          \* an instance that is not attacked produces no result
          /\ ShouldAttack(ArgMax(data_to_attack[i + 1].probs), data_to_attack[i + 1].label)
                \/ result = [success |-> FALSE, change_num |-> 0, queries |-> 0]
          /\ AttackIteration(result)
    /\ i' = i + 1
    /\ UNCHANGED <<pc, data_to_attack, attack_gen_adv, attack_method, attacker, summary,
                   eval_pc, model, predictorVars, waVars, auxVars>>

\* lines 535-546: the loop is over, the log is closed, the summary printed.
AttackFinish ==
    /\ pc = "loop"
    /\ i = Len(data_to_attack)
    /\ pc' = "done"
    /\ summary' = SummaryOf(agg)
    /\ UNCHANGED <<i, data_to_attack, metric, predict_calls, attack_calls, visits,
                   agg, f_adv, attack_gen_adv, attack_method, attacker,
                   eval_pc, model, model_at_calls, predictorVars, waVars, auxVars>>

NextAttack ==
    \/ from_pretrained
    \/ FromPretrainedRaises
    \/ evaluate_predictor
    \/ AttackSetup
    \/ AttackSetupRaises
    \/ AttackInstance
    \/ AttackFinish

SpecAttack == InitAttack /\ [][NextAttack]_vars

Visited == 1 .. Len(visits)
Correct(k) == ArgMax(data_to_attack[k].probs) = data_to_attack[k].label
CountCalls(call) == Cardinality({k \in Visited : visits[k].call = call})

\* C1: an instance whose initial prediction differs from its gold label is
\* recorded with escape() only, is never handed to attack_from_json and costs
\* exactly one predictor call; attack_from_json is called exactly once for
\* every instance whose initial prediction equals the gold label.
C1_SkipNeverAttacked ==
    /\ (pc = "done") => Len(visits) = Len(data_to_attack)
    /\ \A k \in 1 .. Len(data_to_attack) :
          IF k \in Visited
          THEN IF Correct(k)
               THEN attack_calls[k] = 1 /\ visits[k].call # "escape"
               ELSE /\ visits[k].call = "escape"
                    /\ attack_calls[k] = 0
                    /\ predict_calls[k] = 1
          ELSE attack_calls[k] = 0 /\ predict_calls[k] = 0

\* a finished run with a skipped instance (one of them on a tied maximum) and
\* an attacked one that queried the predictor
C1_Witness ==
    /\ pc = "done"
    /\ \E k \in Visited : ~Correct(k) /\ visits[k].call = "escape"
    /\ \E k \in Visited : ~Correct(k) /\ data_to_attack[k].probs[1] = GridUnits
    /\ \E k \in Visited : Correct(k) /\ attack_calls[k] = 1 /\ predict_calls[k] > 1

\* C2: the loop visits the instances once each in index order; every visit
\* raises exactly one of succeed, fail, escape (succeed iff attacked and
\* successful, fail iff attacked and not successful, escape iff skipped); a
\* skip or a fail does not stop the loop: after k iterations the counters sum
\* to k, and the run ends with the sum equal to len(data_to_attack).
C2_OneCounterPerVisit ==
    /\ pc # "start" =>
          /\ Len(visits) = i
          /\ i <= Len(data_to_attack)
          /\ \A k \in Visited :
                /\ visits[k].idx = k - 1
                /\ visits[k].call = "succeed" <=> (visits[k].attacked /\ visits[k].success)
                /\ visits[k].call = "fail" <=> (visits[k].attacked /\ ~visits[k].success)
                /\ visits[k].call = "escape" <=> ~visits[k].attacked
          /\ metric.succeed = CountCalls("succeed")
          /\ metric.fail = CountCalls("fail")
          /\ metric.escape = CountCalls("escape")
          /\ metric.succeed + metric.fail + metric.escape = i
    /\ pc = "done" =>
          metric.succeed + metric.fail + metric.escape = Len(data_to_attack)

\* a finished run that went on after a skip and after a fail
C2_Witness ==
    /\ pc = "done"
    /\ Len(data_to_attack) >= 3
    /\ visits[1].call = "escape" /\ visits[2].call = "fail" /\ visits[3].call = "succeed"

KnownMethods == {"hotflip", "bruteforce", "PWWS", "GA-LM", "GA"}

\* C11: with an attack_method outside hotflip, bruteforce, PWWS, GA-LM, GA,
\* Task.attack raises while it constructs the attacker: no attacker is chosen,
\* no instance is attacked, no counter changes and no log is opened.
C11_UnknownMethodRaises ==
    attack_method \notin KnownMethods =>
        /\ pc \in {"start", "raised"}
        /\ attacker = "None"
        /\ visits = <<>> /\ attack_calls = <<>> /\ predict_calls = <<>>
        /\ metric = [succeed |-> 0, fail |-> 0, escape |-> 0]
        /\ f_adv = <<>>

C11_Witness ==
    attack_method \notin KnownMethods /\ pc = "raised" /\ attack_gen_adv

AttackedVisits == SelectSeq(visits, LAMBDA v : v.attacked)

\* C13: with attack_gen_adv set, the log is the header row followed by
\* exactly one row per attacked instance, in instance order, each row made of
\* the raw sentence, the adversarial sentence and the gold label.
C13_OneRowPerAttacked ==
    (attack_gen_adv /\ pc = "done") =>
        /\ f_adv # <<>>
        /\ f_adv[1] = "raw\tadv\tlabel"
        /\ Len(f_adv) = 1 + Len(AttackedVisits)
        /\ \A k \in 1 .. Len(AttackedVisits) :
              /\ k + 1 \in DOMAIN f_adv
              /\ f_adv[k + 1].raw.sent = AttackedVisits[k].idx
              /\ f_adv[k + 1].label = data_to_attack[AttackedVisits[k].idx + 1].label

SucceededVisits == SelectSeq(visits, LAMBDA v : v.attacked /\ v.success)

\* C16: change_num / change_ratio are aggregated for exactly the instances
\* whose attack succeeded, never for failed or skipped ones, and the final
\* summary is produced, with '-' for the averages when nothing succeeded.
C16_AggregatesSuccessesOnly ==
    /\ pc \in {"loop", "done"} =>
          /\ Len(agg) = Len(SucceededVisits)
          /\ \A k \in 1 .. Len(agg) : agg[k].idx = SucceededVisits[k].idx
    /\ pc = "done" =>
          /\ summary.printed
          /\ summary.dash <=> SucceededVisits = <<>>
          /\ ~summary.dash =>
                summary.avg_change_num =
                    <<SumSeq([k \in 1 .. Len(agg) |-> agg[k].change_num]),
                      Len(SucceededVisits)>>

\* a finished run with a skipped and a failed instance and no success
C16_Witness ==
    /\ pc = "done" /\ summary.dash
    /\ \E k \in Visited : visits[k].call = "fail"
    /\ \E k \in Visited : visits[k].call = "escape"
    /\ \E k \in 2 .. (Len(f_adv)) : attack_gen_adv /\ f_adv[k].adv.changed > 0

\* C21: in every run of Task.attack the checkpoint is loaded and the model is
\* in eval mode before the first predictor call and before the first
\* attack_from_json call; nothing is predicted or attacked with unloaded weights.
C21_LoadedBeforeFirstCall ==
    /\ \A c \in model_at_calls :
          c.model.weights = "checkpoint" /\ ~c.model.training
    /\ eval_pc \in {"enter", "raised"} =>
          /\ model_at_calls = {}
          /\ pc = "start" /\ visits = <<>>
          /\ model.weights = "initial"
    /\ (pc # "start" \/ visits # <<>>) => eval_pc = "evaluated"

\* a finished run that evaluated, predicted and attacked
C21_Witness ==
    /\ pc = "done"
    /\ \A kind \in {"evaluate", "predict", "attack"} :
          \E c \in model_at_calls : c.kind = kind
    /\ \E k \in 1 .. Len(visits) : visits[k].attacked

\* ------------------------------------- Predictor.capture_named_internals
\* A module name is a sequence of characters; model.named_modules() lists the
\* root module (empty name) first. A hook on the model is [id, mod]; the handle
\* the predictor keeps for it is its id.

NamedModules == << <<>>, <<"e">>, <<"e", "l">>, <<"d">> >>

NamePatterns == {<<"e">>, <<"l">>, <<"e", "l">>, <<"d">>}

MatchTypes == {"full", "partial", "re"}

\* name in mod_name, for strings
IsSubstring(name, mod_name) ==
    \E k \in 0 .. (Len(mod_name) - Len(name)) :
        SubSeq(mod_name, k + 1, k + Len(name)) = name

\* re.match(name, mod_name) for a pattern without metacharacters
ReMatch(name, mod_name) ==
    Len(name) <= Len(mod_name) /\ SubSeq(mod_name, 1, Len(name)) = name

\* lines 73-87: the modules a hook is registered on, in registration order
HookedModules(nms, mt) ==
    Flatten([m \in 1 .. Len(NamedModules) |->
        IF mt = "full"
        THEN IF \E k \in 1 .. Len(nms) : nms[k] = NamedModules[m] THEN <<m>> ELSE <<>>
        ELSE LET hits == SelectSeq(nms, LAMBDA n :
                             IF mt = "partial" THEN IsSubstring(n, NamedModules[m])
                             ELSE ReMatch(n, NamedModules[m]))
             IN  [k \in 1 .. Len(hits) |-> m]])

\* The hooks left on the model when the with-block is left: lines 93-94 run
\* after a normal body, and are skipped when the body raised, since the
\* exception is thrown into the generator at the yield of line 90.
HooksAfterExit(on_model, handles, raised) ==
    IF raised THEN on_model
    ELSE SelectSeq(on_model, LAMBDA h : \A k \in 1 .. Len(handles) : handles[k] # h.id)

InitCapture ==
    /\ InitPredictor
    /\ InitWAIdle
    /\ InitAttackIdle
    /\ InitTrainIdle
    /\ InitDownIdle
    /\ InitCaptureState

\* lines 51-90: entering the with-block
CaptureEnter ==
    /\ cap_pc = "out"
    /\ uses < MaxUses
    /\ \E nms \in SeqsUpTo(NamePatterns, MaxNames), mt \in MatchTypes :
          LET mods == HookedModules(nms, mt)
          IN  /\ names' = nms
              /\ match_type' = mt
              /\ hooks' = [k \in 1 .. Len(mods) |-> hook_count + k]
              /\ model_hooks' = model_hooks \o
                                   [k \in 1 .. Len(mods) |->
                                       [id |-> hook_count + k, mod |-> mods[k]]]
              /\ hook_count' = hook_count + Len(mods)
    /\ cap_pc' = "body"
    /\ uses' = uses + 1
    /\ UNCHANGED <<removed, predictorVars, waVars, attackVars, trainVars, downVars>>

CaptureLeave(raised) ==
    /\ cap_pc = "body"
    /\ cap_pc' = "out"
    /\ model_hooks' = HooksAfterExit(model_hooks, hooks, raised)
    /\ removed' = IF raised THEN removed ELSE removed \o hooks
    /\ hooks' = <<>>
    /\ names' = <<>>
    /\ match_type' = "full"
    /\ UNCHANGED <<hook_count, uses, predictorVars, waVars, attackVars, trainVars,
                   downVars>>

\* the body completes: lines 93-94
CaptureExitNormal == CaptureLeave(FALSE)

\* the body raises
CaptureExitException == CaptureLeave(TRUE)

NextCapture == CaptureEnter \/ CaptureExitNormal \/ CaptureExitException

SpecCapture == InitCapture /\ [][NextCapture]_vars

\* C19: whenever the with-block has been left, by completion or by an
\* exception, the model carries no hook registered by capture_named_internals,
\* and every hook it registered has been removed exactly once.
C19_HooksAlwaysRemoved ==
    cap_pc = "out" =>
        /\ model_hooks = <<>>
        /\ \A h \in 1 .. hook_count :
              Cardinality({k \in 1 .. Len(removed) : removed[k] = h}) = 1

\* ------------------------------------------------------------- Task.train
\* The adversarial policy Task.train builds from config.adv_policy and hands
\* to the trainer. The policy is the name of its class.

AdvPolicies == {"hot", "rdm", "diy", "", "hott"}

Archs == {"bert", "biboe"}

KnownPolicies == {"hot", "rdm", "diy"}

AdvField(cfg) ==
    IF cfg.sentence_pair /\ cfg.arch # "bert" THEN "sent2" ELSE "sent"

PolicyArgsFor(cfg) ==
    [adv_field |-> AdvField(cfg),
     forward_order |-> IF cfg.adv_policy = "hot" /\ cfg.sentence_pair /\ cfg.arch # "bert"
                       THEN 1 ELSE 0]

PolicyFor(name) ==
    IF name = "hot" THEN "HotFlipPolicy"
    ELSE IF name = "rdm" THEN "RandomNeighbourPolicy"
    ELSE IF name = "diy" THEN "DoItYourselfPolicy"
    ELSE "NoPolicy"

InitTrain ==
    /\ InitPredictor
    /\ InitWAIdle
    /\ InitAttackIdle
    /\ InitCaptureState
    /\ InitDownIdle
    /\ InitTrainState
    /\ train_config \in [adv_policy : AdvPolicies, arch : Archs,
                         sentence_pair : BOOLEAN, num_epochs : 1 .. MaxEpochs]

\* lines 175-233: hyper-parameters, policy_args and the policy
TrainBuildPolicy ==
    /\ train_pc = "start"
    /\ train_pc' = "policy"
    /\ policy_args' = PolicyArgsFor(train_config)
    /\ adv_policy' = PolicyFor(train_config.adv_policy)
    /\ UNCHANGED <<train_config, trainer, predictorVars, waVars, attackVars,
                   captureVars, downVars>>

\* lines 235-295: sampler, callbacks, optimizer and the AdvTrainer
TrainBuildTrainer ==
    /\ train_pc = "policy"
    /\ train_pc' = "trainer"
    /\ trainer' = [adv_policy |-> adv_policy, num_epochs |-> train_config.num_epochs,
                   trained |-> FALSE]
    /\ UNCHANGED <<train_config, adv_policy, policy_args, predictorVars, waVars,
                   attackVars, captureVars, downVars>>

\* line 296: trainer.train()
TrainerTrain ==
    /\ train_pc = "trainer"
    /\ train_pc' = "done"
    /\ trainer' = [trainer EXCEPT !.trained = TRUE]
    /\ UNCHANGED <<train_config, adv_policy, policy_args, predictorVars, waVars,
                   attackVars, captureVars, downVars>>

NextTrain == TrainBuildPolicy \/ TrainBuildTrainer \/ TrainerTrain

SpecTrain == InitTrain /\ [][NextTrain]_vars

\* C12: a config.adv_policy that is not hot, rdm or diy raises when the policy
\* is constructed; no policy is substituted and training is not started.
C12_UnknownPolicyRaises ==
    train_config.adv_policy \notin KnownPolicies =>
        /\ train_pc \in {"start", "raised"}
        /\ adv_policy = "None"
        /\ trainer = NoTrainer

\* --------------------------------------------------------- Task.downsample
\* An instance is [id, has_sent, sent, sent2]: whether it has a 'sent' field,
\* and the token counts of 'sent' and 'sent2' (0 for a field it lacks).

Min(a, b) == IF a < b THEN a ELSE b

Max(a, b) == IF a < b THEN b ELSE a

DataSplits ==
    {[k \in 1 .. n |-> [id |-> k, has_sent |-> hs,
                        sent |-> IF hs THEN TokenLimit - long[k] ELSE 0,
                        sent2 |-> IF hs THEN 0 ELSE TokenLimit - long[k]]] :
        n \in 0 .. MaxInstances, hs \in BOOLEAN, long \in [1 .. MaxInstances -> {0, 1}]}

DownConfigs ==
    [data_random : BOOLEAN,
     data_downsample : {-2, -1} \cup (0 .. MaxDownsample),
     data_shard : 0 .. MaxShard]

\* lines 368-371, from the first instance
MainField(data) == IF data[1].has_sent THEN "sent" ELSE "sent2"

\* len(x[main_field].tokens)
MainTokens(x, main_field) == x[main_field]

\* lines 372-373
Filtered(data) ==
    SelectSeq(data, LAMBDA x : MainTokens(x, MainField(data)) < TokenLimit)

\* np.random.permutation(n) under the fixed seed: one fixed permutation for
\* every length (here the rotation by one place).
Permutation(n) == [k \in 1 .. n |-> (k % n) + 1]

\* lines 375-378
Shuffled(data, data_random) ==
    IF data_random
    THEN [k \in 1 .. Len(data) |-> data[Permutation(Len(data))[k]]]
    ELSE data

\* Python's seq[start:end]: a negative index counts from the end, and both
\* are clamped to 0 .. len(seq).
PySliceIndex(idx, len) == IF idx < 0 THEN Max(idx + len, 0) ELSE Min(idx, len)

PySlice(seq, start, end) ==
    LET a == PySliceIndex(start, Len(seq))
        b == PySliceIndex(end, Len(seq))
    IN  IF a < b THEN SubSeq(seq, a + 1, b) ELSE <<>>

\* lines 382-383
SliceStart(data_shard, data_downsample) == data_shard * data_downsample

SliceEndInclusive(start, data_downsample) == start + data_downsample + 1
SliceEnd(start, data_downsample) == start + data_downsample

\* lines 368-389
Downsampled(data, cfg) ==
    LET prepared == Shuffled(Filtered(data), cfg.data_random)
        start == SliceStart(cfg.data_shard, cfg.data_downsample)
    IN  IF cfg.data_downsample # -1
        THEN PySlice(prepared, start, SliceEnd(start, cfg.data_downsample))
        ELSE prepared

InitDownsample ==
    /\ InitPredictor
    /\ InitWAIdle
    /\ InitAttackIdle
    /\ InitTrainIdle
    /\ InitCaptureState
    /\ InitDownState
    /\ dataset \in DataSplits
    /\ down_config \in DownConfigs

downsample ==
    /\ down_pc = "start"
    /\ dataset # <<>>
    /\ down_pc' = "done"
    /\ data_down' = Downsampled(dataset, down_config)
    /\ UNCHANGED <<dataset, down_config, predictorVars, waVars, attackVars, trainVars,
                   captureVars>>

\* line 368 on an empty split: data_down[0] raises IndexError
DownsampleIndexError ==
    /\ down_pc = "start"
    /\ dataset = <<>>
    /\ down_pc' = "raised"
    /\ UNCHANGED <<dataset, down_config, data_down, predictorVars, waVars, attackVars,
                   trainVars, captureVars>>

NextDownsample == downsample \/ DownsampleIndexError

SpecDownsample == InitDownsample /\ [][NextDownsample]_vars

\* The filtered instances in the order the slice is cut from: the split's
\* instances with a short main field, kept in order, or rearranged when
\* data_random is set.
IdsOf(seq) == {seq[k].id : k \in 1 .. Len(seq)}

ShortIds ==
    {dataset[k].id : k \in {j \in 1 .. Len(dataset) :
        (IF dataset[1].has_sent THEN dataset[j].sent ELSE dataset[j].sent2) < TokenLimit}}

Prepared == Downsampled(dataset, [down_config EXCEPT !.data_downsample = -1])

ShardOf(sh) == Downsampled(dataset, [down_config EXCEPT !.data_shard = sh])

PreparedIsFilteredData ==
    /\ IdsOf(Prepared) = ShortIds
    /\ Len(Prepared) = Cardinality(ShortIds)
    /\ ~down_config.data_random =>
          \A j, k \in 1 .. Len(Prepared) : j < k => Prepared[j].id < Prepared[k].id
    /\ \A sh \in 0 .. MaxShard :
          Downsampled(dataset, [down_config EXCEPT !.data_downsample = -1,
                                                   !.data_shard = sh]) = Prepared

IsShardSlice(n, sh) ==
    LET lo == sh * n
        size == Max(0, Min(n, Len(Prepared) - lo))
    IN  /\ Len(data_down) = size
        /\ Len(data_down) <= n
        /\ \A k \in 1 .. size : data_down[k] = Prepared[lo + k]

ShardsPartition ==
    /\ \A s1, s2 \in 0 .. (Len(Prepared) + MaxShard) :
          s1 # s2 => IdsOf(ShardOf(s1)) \cap IdsOf(ShardOf(s2)) = {}
    /\ \A k \in 1 .. Len(Prepared) :
          Cardinality({sh \in 0 .. (Len(Prepared) + MaxShard) :
                          \E j \in 1 .. Len(ShardOf(sh)) : ShardOf(sh)[j] = Prepared[k]}) = 1

\* C20 as stated: only instances with fewer than TokenLimit tokens are
\* returned; for every data_downsample = n other than -1 and every shard
\* s >= 0 the result is the slice [s*n, s*n + n) of the filtered data, of at
\* most n instances, the shards being disjoint and covering the filtered data
\* exactly once; for -1 all filtered instances are returned.
C20_ShardsForEveryN ==
    down_pc = "done" =>
        /\ IdsOf(data_down) \subseteq ShortIds
        /\ PreparedIsFilteredData
        /\ down_config.data_downsample = -1 => data_down = Prepared
        /\ down_config.data_downsample # -1 =>
              /\ IsShardSlice(down_config.data_downsample, down_config.data_shard)
              /\ ShardsPartition

\* C20, amended: the slice, its size and the partition into shards hold for
\* data_downsample = n >= 1; for n = 0 nothing is returned; for -1 all
\* filtered instances are returned.
C20_ShardsForPositiveN ==
    down_pc = "done" =>
        /\ IdsOf(data_down) \subseteq ShortIds
        /\ PreparedIsFilteredData
        /\ down_config.data_downsample = -1 => data_down = Prepared
        /\ down_config.data_downsample = 0 => data_down = <<>>
        /\ down_config.data_downsample >= 1 =>
              /\ IsShardSlice(down_config.data_downsample, down_config.data_shard)
              /\ ShardsPartition

\* the second shard of size one, cut from a permuted split that lost an
\* instance to the length filter
C20_Witness ==
    /\ down_pc = "done"
    /\ down_config.data_downsample = 1 /\ down_config.data_shard = 1
    /\ down_config.data_random
    /\ Len(Prepared) = 2 /\ Len(dataset) > Len(Prepared)
    /\ Len(data_down) = 1
    /\ data_down[1] # Filtered(dataset)[2]

\* ---------------------------------------------------- AttackMetric in isolation
\* The three counters and the two derived rates, driven by arbitrary call
\* sequences; a rate is the fraction <<numerator, denominator>>.

MetricTotal(m) == m.succeed + m.fail + m.escape

accuracy_before_attack(m) == FDiv(m.succeed + m.fail, MetricTotal(m))

AccuracyAfterCountsSucceed(m) == FDiv(m.succeed, MetricTotal(m))

accuracy_after_attack(m) == FDiv(m.fail, MetricTotal(m))

metric_call(call) ==
    /\ MetricTotal(metric) < MaxMetricCalls
    /\ metric' = MetricAfter(metric, call)
    /\ UNCHANGED <<pc, i, data_to_attack, predict_calls, attack_calls, visits,
                   agg, f_adv, attack_gen_adv, attack_method, attacker, summary,
                   eval_pc, model, model_at_calls, predictorVars, waVars, auxVars>>

metric_succeed == metric_call("succeed")

metric_fail == metric_call("fail")

metric_escape == metric_call("escape")

InitMetric == InitPredictor /\ InitWAIdle /\ InitAttackIdle /\ InitAuxIdle

NextMetric == metric_succeed \/ metric_fail \/ metric_escape

SpecMetric == InitMetric /\ [][NextMetric]_vars

\* C15: after at least one succeed/fail/escape call the metric reports
\* accuracy_before_attack = (succeed+fail)/(succeed+fail+escape) and
\* accuracy_after_attack = fail/(succeed+fail+escape), the second never above
\* the first; 10 escapes, 6 successes and 4 fails give 50% and 20%.
C15_MetricRates ==
    MetricTotal(metric) >= 1 =>
        /\ ~IsNaN(accuracy_before_attack(metric))
        /\ ~IsNaN(accuracy_after_attack(metric))
        /\ RatEq(accuracy_before_attack(metric),
                 <<MetricTotal(metric) - metric.escape, MetricTotal(metric)>>)
        /\ RatEq(accuracy_after_attack(metric),
                 <<MetricTotal(metric) - metric.escape - metric.succeed,
                   MetricTotal(metric)>>)
        /\ ~RatLess(accuracy_before_attack(metric), accuracy_after_attack(metric))
        /\ metric = [succeed |-> 6, fail |-> 4, escape |-> 10] =>
              /\ RatEq(accuracy_before_attack(metric), <<50, 100>>)
              /\ RatEq(accuracy_after_attack(metric), <<20, 100>>)

C15_Witness == metric = [succeed |-> 6, fail |-> 4, escape |-> 10]

\* ------------------------------------------- _weighted_average in isolation
InitWA ==
    /\ InitAttackIdle
    /\ InitAuxIdle
    /\ _grad_enabled = FALSE
    /\ _max_batch_forward = DefaultMaxBatchForward
    /\ _ensemble_num = DefaultEnsembleNum
    /\ _transform_fn = "None"
    /\ _transform_field = "sent"
    /\ grad_mode = FALSE
    /\ op = "__init__"
    /\ json_dicts = <<>>
    /\ ret = <<>>
    /\ forwards = <<>>
    /\ tf_calls = 0
    /\ last_transform_arg = "unset"
    /\ prev_transform_fn = "None"
    /\ json_after = <<>>
    /\ _ensemble_p \in 0 .. MaxP
    /\ probs_to_ensemble \in SeqsUpTo(ProbVectors, MaxReplicas) \ {<<>>}
    /\ wa_delta = <<>>
    /\ wa_ret = <<>>

WeightedAverageCall ==
    /\ wa_ret = <<>>
    /\ wa_delta' = Weights(probs_to_ensemble, _ensemble_p)
    /\ wa_ret' = _weighted_average(probs_to_ensemble, _ensemble_p)
    /\ UNCHANGED <<predictorVars, attackVars, auxVars, probs_to_ensemble>>

NextWA == WeightedAverageCall

SpecWA == InitWA /\ [][NextWA]_vars

WACalled == wa_ret # <<>>
Replicas == 1 .. Len(probs_to_ensemble)
Gap(r, c) == MaxOf(probs_to_ensemble[r]) - probs_to_ensemble[r][c]

\* C7: with ensemble_p = 0 every replica gets weight 1/N and the result is
\* the unweighted arithmetic mean of the vectors, tied maxima included.
C7_MeanAtPZero ==
    (WACalled /\ _ensemble_p = 0) =>
        /\ \A r \in Replicas : RatEq(wa_delta[r], <<1, Len(probs_to_ensemble)>>)
        /\ \A c \in 1 .. NumLabels :
              RatEq(wa_ret[c],
                    <<SumSeq([r \in Replicas |-> probs_to_ensemble[r][c]]),
                      Len(probs_to_ensemble) * Grid>>)

\* p = 0, several replicas, one of them with a tied maximum (a 0 ** 0 term
\* beyond the arg-max entry itself) and one without.
C7_Witness ==
    /\ WACalled /\ _ensemble_p = 0 /\ Len(probs_to_ensemble) >= 2
    /\ \E r \in Replicas :
          Cardinality({c \in 1 .. NumLabels : Gap(r, c) = 0}) >= 2
    /\ \E r \in Replicas :
          Cardinality({c \in 1 .. NumLabels : Gap(r, c) = 0}) = 1

MorePeaked(a, b) ==
    /\ ArgMax(probs_to_ensemble[a]) = ArgMax(probs_to_ensemble[b])
    /\ \A c \in 1 .. NumLabels : Gap(a, c) >= Gap(b, c)
    /\ \E c \in 1 .. NumLabels : Gap(a, c) > Gap(b, c)

\* C8: with ensemble_p > 0, of two replicas of one call with the same arg-max
\* the more peaked one gets the strictly greater weight.
C8_PeakedWeighsMore ==
    (WACalled /\ _ensemble_p > 0) =>
        \A a, b \in Replicas : MorePeaked(a, b) => RatLess(wa_delta[b], wa_delta[a])

C8_Witness ==
    /\ WACalled /\ _ensemble_p > 0
    /\ \E a, b \in Replicas : MorePeaked(a, b) /\ Gap(b, ArgMax(probs_to_ensemble[b]) + 1) = 0
                                 /\ \E c \in 1 .. NumLabels : Gap(b, c) > 0

\* C9: for every ensemble_p >= 0 the weights are well defined, non-negative
\* and sum to 1, and the returned vector sums to 1 (all-uniform input included).
C9_WeightsWellDefined ==
    WACalled =>
        /\ \A r \in Replicas : ~IsNaN(wa_delta[r]) /\ wa_delta[r][1] >= 0
        /\ SumSeq([r \in Replicas |-> wa_delta[r][1]]) = wa_delta[1][2]
        /\ \A c \in 1 .. NumLabels : ~IsNaN(wa_ret[c])
        /\ SumSeq([c \in 1 .. NumLabels |-> wa_ret[c][1]]) = wa_ret[1][2]

====
